---- MODULE Spec2Model ----
(***************************************************************************)
(* Cookie Clicker numerical simulator: GameState, the building and upgrade *)
(* catalogs, the CPS calculator, the purchase optimizer and GameSimulator. *)
(*                                                                         *)
(* Number representation.  The code computes in double precision.  Here a  *)
(* cookie amount or a rate is a fixed-point integer counted in 1/Scale     *)
(* cookies; a multiplication by a fractional multiplier rounds down once.  *)
(* Lifetime totals (cookies_earned, cookies_reset) can reach PRESTIGE_BASE *)
(* = 10^12 cookies, so they are held in two limbs, hi * PRESTIGE_BASE + lo *)
(* with lo a (possibly negative) fixed-point amount far below the base.    *)
(***************************************************************************)
EXTENDS Integers, Sequences, FiniteSets, TLC

\* ---------------------------------------------------------------- bounds
Scale == 10 * 10 * 10
MaxOwned == 2
MaxSteps == 1
MaxClicks == 15
MaxAscensions == 1
MaxBuy == 2
MaxAutoSteps == 3
MaxObservers == 3
MaxUntilSteps == 3
MaxLevel == 5
MaxTicks == 15

\* ------------------------------------------------------------- constants
BUILDING_PRICE_MULTIPLIER == 115
max_purchases_per_step == 10
clicks_per_second == 10

\* BUILDINGS_BASE_DATA, first three catalog rows, in catalog order
BuildingOrder == <<"Cursor", "Grandma", "Farm">>
BuildingNames == {"Cursor", "Grandma", "Farm"}

base_price(b) ==
  CASE b = "Cursor" -> 15 * Scale
    [] b = "Grandma" -> 100 * Scale
    [] b = "Farm" -> 1100 * Scale

base_cps(b) ==
  CASE b = "Cursor" -> Scale \div 10
    [] b = "Grandma" -> Scale
    [] b = "Farm" -> 8 * Scale

\* initialize_buildings: every building but Cursor and Grandma
grandma_synergy(b) == b # "Cursor" /\ b # "Grandma"

\* UPGRADES_DATA rows kept in the model, in catalog order
UpgradeOrder == <<"Reinforced index finger", "Forwards from grandma",
                  "Heavenly chip secret", "Heavenly cookie stand">>
UpgradeNames == {UpgradeOrder[i] : i \in 1..Len(UpgradeOrder)}

\* price of an upgrade: cookies (fixed point) or, for a heavenly upgrade,
\* heavenly chips (plain integer)
upgrade_price(u) ==
  CASE u = "Reinforced index finger" -> 100 * Scale
    [] u = "Forwards from grandma" -> 1000 * Scale
    [] u = "Heavenly chip secret" -> 1
    [] u = "Heavenly cookie stand" -> 3

is_heavenly(u) == u \in {"Heavenly chip secret", "Heavenly cookie stand"}

\* 'heavenly' in u.lower()
NameHasHeavenly_any(u) == TRUE

NameHasHeavenly(u) == u \in {"Heavenly chip secret", "Heavenly cookie stand"}

\* ---------------------------------------------------- two-limb amounts
Big(h, l) == [hi |-> h, lo |-> l]
BigAdd(x, amount) == [hi |-> x.hi, lo |-> x.lo + amount]
BigSum(x, y) == [hi |-> x.hi + y.hi, lo |-> x.lo + y.lo]

\* integer cube root of a small natural
RECURSIVE ICbrtFrom(_, _)
ICbrtFrom(t, k) == IF (k + 1) * (k + 1) * (k + 1) > t THEN k
                   ELSE ICbrtFrom(t, k + 1)

\* perfect cubes whose double-precision cube root falls just below the
\* integer: 64 ** (1/3) = 3.9999999999999996, 125 ** (1/3) = 4.999999999999999
FloatCbrtShort(t) ==
  LET k == ICbrtFrom(t, 0) IN k >= 4 /\ k * k * k = t

\* int(calculate_prestige(total)) for total = hi * PRESTIGE_BASE + lo
IntPrestige(total) ==
  LET t == IF total.lo < 0 THEN total.hi - 1 ELSE total.hi
  IN IF t <= 0 THEN 0
     ELSE IF total.lo = 0 /\ FloatCbrtShort(t) THEN ICbrtFrom(t, 0) - 1
     ELSE ICbrtFrom(t, 0)

calculate_cookies_for_prestige(level) == Big(level * level * level, 0)

\* ------------------------------------------------------------ Building
\* base_price * price_multiplier ** current_amount
RECURSIVE get_price(_, _)
get_price(b, current_amount) ==
  IF current_amount = 0 THEN base_price(b)
  ELSE IF current_amount > 0
       THEN (get_price(b, current_amount - 1) * BUILDING_PRICE_MULTIPLIER)
              \div 100
       ELSE (get_price(b, current_amount + 1) * 100)
              \div BUILDING_PRICE_MULTIPLIER

\* a bulk price that charges every unit the price of the first
get_bulk_price_flat(b, current_amount, buy_amount) ==
  IF buy_amount <= 0 THEN 0 ELSE buy_amount * get_price(b, current_amount)

\* for i in range(buy_amount): total_price += get_price(current_amount + i)
RECURSIVE get_bulk_price(_, _, _)
get_bulk_price(b, current_amount, buy_amount) ==
  IF buy_amount <= 0 THEN 0
  ELSE get_bulk_price(b, current_amount, buy_amount - 1)
         + get_price(b, current_amount + buy_amount - 1)

get_building_specific_upgrades(b) ==
  CASE b = "Cursor" -> {"Reinforced index finger",
                        "Carpal tunnel prevention cream", "Ambidextrous"}
    [] b = "Grandma" -> {"Forwards from grandma",
                         "Steel-plated rolling pins", "Lubricated dentures"}
    [] b = "Farm" -> {"Cheap hoes", "Fertilizer", "Cookie trees"}
    [] OTHER -> {}

RECURSIVE Pow2(_)
Pow2(n) == IF n <= 0 THEN 1 ELSE 2 * Pow2(n - 1)

get_building_count(gs, b) ==
  IF b \in DOMAIN gs.buildings THEN gs.buildings[b] ELSE 0

has_upgrade(gs, u) == u \in gs.upgrades_owned

\* the three grandma upgrades double every building, then each owned
\* upgrade of the building's own list doubles it again
get_upgrade_multiplier(b, gs) ==
  Pow2(Cardinality({"Forwards from grandma", "Steel-plated rolling pins",
                    "Lubricated dentures"} \cap gs.upgrades_owned))
  * Pow2(Cardinality(get_building_specific_upgrades(b)
                       \cap gs.upgrades_owned))

\* in percent: 1 + grandma_count * 0.01
get_grandma_synergy_multiplier(b, gs) ==
  IF ~grandma_synergy(b) THEN 100
  ELSE IF get_building_count(gs, "Grandma") <= 0 THEN 100
  ELSE 100 + get_building_count(gs, "Grandma")

\* in percent: 1 + prestige * 0.01 * heavenly_power
get_prestige_multiplier(gs) ==
  IF gs.ascension_mode = 1 THEN 100 ELSE 100 + gs.prestige

\* in percent; milk_progress stays 0 without achievements
get_milk_multiplier(gs) == 100

\* in 1/10^6: upgrade * synergy * milk * prestige (level and special are 1)
get_total_multiplier(b, gs) ==
  get_upgrade_multiplier(b, gs)
  * (IF grandma_synergy(b) THEN get_grandma_synergy_multiplier(b, gs)
     ELSE 100)
  * get_milk_multiplier(gs)
  * get_prestige_multiplier(gs)

get_cps_contribution(b, amount, gs) ==
  IF amount <= 0 THEN 0
  ELSE (((base_cps(b) * amount) * (get_total_multiplier(b, gs) \div 100))
          \div 10000)

\* BuildingManager.calculate_total_cps: sum over the catalog
RECURSIVE SumContributions(_, _)
SumContributions(i, gs) ==
  IF i > Len(BuildingOrder) THEN 0
  ELSE get_cps_contribution(BuildingOrder[i],
                            get_building_count(gs, BuildingOrder[i]), gs)
       + SumContributions(i + 1, gs)

\* ----------------------------------------------------------- GameState
NoEffect == [k \in {} |-> 0]
CpsMult(pct) == [k \in {"cps_mult"} |-> pct]

\* GameState.__init__
NewGameState ==
  [cookies |-> 0,
   cookies_earned |-> Big(0, 0),
   cookies_reset |-> Big(0, 0),
   cookies_per_second |-> 0,
   cookie_clicks |-> 0,
   buildings |-> [b \in BuildingNames |-> 0],
   upgrades_owned |-> {},
   upgrades_unlocked |-> {},
   prestige |-> 0,
   heavenly_chips |-> 0,
   heavenly_chips_spent |-> 0,
   ascension_mode |-> 0,
   game_time |-> 0,
   buffs |-> [n \in {} |-> 0]]

earn_cookies(gs, amount) ==
  [gs EXCEPT !.cookies = @ + amount,
             !.cookies_earned = BigAdd(@, amount)]

\* a spend that clamps at zero instead of refusing
spend_cookies_clamped(gs, amount) ==
  <<TRUE, [gs EXCEPT !.cookies = IF @ >= amount THEN @ - amount ELSE 0]>>

\* returns the pair <<success, state>>
spend_cookies(gs, amount) ==
  IF gs.cookies >= amount
  THEN <<TRUE, [gs EXCEPT !.cookies = @ - amount]>>
  ELSE <<FALSE, gs>>

add_building(gs, b, amount) ==
  IF b \in DOMAIN gs.buildings
  THEN [gs EXCEPT !.buildings[b] = @ + amount]
  ELSE gs

add_upgrade(gs, u) == [gs EXCEPT !.upgrades_owned = @ \cup {u}]

update_prestige(gs) ==
  [gs EXCEPT !.prestige =
     IntPrestige(BigSum(gs.cookies_reset, gs.cookies_earned))]

GameState_add_buff(gs, buff_name, duration, effect) ==
  [gs EXCEPT !.buffs =
     [n \in (DOMAIN gs.buffs) \cup {buff_name} |->
        IF n = buff_name
        THEN [duration |-> duration, effect |-> effect]
        ELSE gs.buffs[n]]]

remove_buff(gs, buff_name) ==
  [gs EXCEPT !.buffs = [n \in (DOMAIN gs.buffs) \ {buff_name} |-> gs.buffs[n]]]

\* an update that keeps a buff whose duration has just reached 0
update_buffs_late(gs, dt) ==
  LET live == {n \in DOMAIN gs.buffs : gs.buffs[n].duration - dt >= 0}
  IN [gs EXCEPT !.buffs =
        [n \in live |-> [gs.buffs[n] EXCEPT !.duration = @ - dt]]]

update_buffs(gs, dt) ==
  LET live == {n \in DOMAIN gs.buffs : gs.buffs[n].duration - dt > 0}
  IN [gs EXCEPT !.buffs =
        [n \in live |-> [gs.buffs[n] EXCEPT !.duration = @ - dt]]]

reset_for_ascension_keeps_buildings(gs) ==
  [gs EXCEPT !.cookies_reset = BigSum(gs.cookies_reset, gs.cookies_earned),
             !.cookies = 0,
             !.cookies_earned = Big(0, 0),
             !.cookies_per_second = 0,
             !.cookie_clicks = 0,
             !.upgrades_owned = {u \in gs.upgrades_owned : NameHasHeavenly(u)},
             !.upgrades_unlocked = {},
             !.buffs = [n \in {} |-> 0],
             !.game_time = 0]

reset_for_ascension(gs) ==
  [gs EXCEPT !.cookies_reset = BigSum(gs.cookies_reset, gs.cookies_earned),
             !.cookies = 0,
             !.cookies_earned = Big(0, 0),
             !.cookies_per_second = 0,
             !.cookie_clicks = 0,
             !.buildings = [b \in DOMAIN gs.buildings |-> 0],
             !.upgrades_owned = {u \in gs.upgrades_owned : NameHasHeavenly(u)},
             !.upgrades_unlocked = {},
             !.buffs = [n \in {} |-> 0],
             !.game_time = 0]

\* to_dict: the fields a save holds (buffs, upgrades_unlocked,
\* cookie_clicks, cookies_per_second and ascension_mode are not among them)
to_dict(gs) ==
  [cookies |-> gs.cookies,
   cookies_earned |-> gs.cookies_earned,
   cookies_reset |-> gs.cookies_reset,
   buildings |-> gs.buildings,
   upgrades_owned |-> gs.upgrades_owned,
   prestige |-> gs.prestige,
   heavenly_chips |-> gs.heavenly_chips,
   heavenly_chips_spent |-> gs.heavenly_chips_spent,
   game_time |-> gs.game_time]

\* from_dict on the state gs: the saved fields, then update_prestige
from_dict(gs, data) ==
  update_prestige(
    [gs EXCEPT !.cookies = data.cookies,
               !.cookies_earned = data.cookies_earned,
               !.cookies_reset = data.cookies_reset,
               !.buildings = [b \in (DOMAIN gs.buildings)
                                      \cup (DOMAIN data.buildings) |->
                                IF b \in DOMAIN data.buildings
                                THEN data.buildings[b] ELSE gs.buildings[b]],
               !.upgrades_owned = data.upgrades_owned,
               !.prestige = data.prestige,
               !.heavenly_chips = data.heavenly_chips,
               !.heavenly_chips_spent = data.heavenly_chips_spent,
               !.game_time = data.game_time])

\* -------------------------------------------------------- CPSCalculator
NewCalculator == [cache |-> {}, cache_valid |-> FALSE]

get_cache_key(gs) ==
  <<gs.buildings, gs.upgrades_owned, gs.prestige, 0, DOMAIN gs.buffs>>

invalidate_cache(calc) == [cache |-> {}, cache_valid |-> FALSE]

\* in percent: prestige * milk, the other global factors are 1
calculate_global_multiplier(gs) ==
  (get_prestige_multiplier(gs) * get_milk_multiplier(gs)) \div 100

\* frenzy x7, then every buff that carries its own cps_mult (percent)
RECURSIVE ApplyCpsMults(_, _, _)
ApplyCpsMults(cps, names, gs) ==
  IF names = {} THEN cps
  ELSE LET n == CHOOSE m \in names : TRUE
           scaled == IF "cps_mult" \in DOMAIN gs.buffs[n].effect
                     THEN (cps * gs.buffs[n].effect["cps_mult"]) \div 100
                     ELSE cps
       IN ApplyCpsMults(scaled, names \ {n}, gs)

calculate_buff_multiplier(cps, gs) ==
  LET frenzied == IF "frenzy" \in DOMAIN gs.buffs THEN cps * 7 ELSE cps
      clotted == IF "clot" \in DOMAIN gs.buffs THEN frenzied \div 2
                 ELSE frenzied
  IN ApplyCpsMults(clotted, DOMAIN gs.buffs, gs)

\* the uncached computation, lines 30 to 46 of calculate_total_cps
fresh_total_cps(gs) ==
  calculate_buff_multiplier(
    (SumContributions(1, gs) * calculate_global_multiplier(gs)) \div 100, gs)

CacheHit(calc, gs) ==
  calc.cache_valid /\ \E e \in calc.cache : e[1] = get_cache_key(gs)

\* value returned by calculate_total_cps
calculate_total_cps(calc, gs) ==
  IF CacheHit(calc, gs)
  THEN (CHOOSE e \in calc.cache : e[1] = get_cache_key(gs))[2]
  ELSE fresh_total_cps(gs)

\* the calculator after calculate_total_cps
calculator_after(calc, gs) ==
  IF CacheHit(calc, gs) THEN calc
  ELSE [cache |-> {e \in calc.cache : e[1] # get_cache_key(gs)}
                    \cup {<<get_cache_key(gs), fresh_total_cps(gs)>>},
        cache_valid |-> TRUE]

click_upgrades == {"Reinforced index finger", "Carpal tunnel prevention cream",
                   "Ambidextrous", "Thousand fingers", "Million fingers",
                   "Billion fingers", "Trillion fingers"}

calculate_click_power(gs) ==
  (Scale + (IF get_building_count(gs, "Cursor") > 0
            THEN get_cps_contribution("Cursor",
                                      get_building_count(gs, "Cursor"), gs)
            ELSE 0))
  * Pow2(Cardinality(click_upgrades \cap gs.upgrades_owned))

\* -------------------------------------------------------------- Upgrade
\* the catalog objects carry their own flags, shared by every GameState
NewUpgrades == [u \in UpgradeNames |-> [unlocked |-> FALSE, bought |-> FALSE]]

check_unlock_condition(u, gs) ==
  CASE u = "Reinforced index finger" -> gs.cookie_clicks >= 15
    [] u = "Forwards from grandma" -> get_building_count(gs, "Grandma") >= 1
    [] u = "Heavenly chip secret" -> TRUE
    [] u = "Heavenly cookie stand" -> has_upgrade(gs, "Heavenly chip secret")

\* the price as the number the optimizer compares with a cookie budget
price_number(u) == IF is_heavenly(u) THEN upgrade_price(u) * Scale
                   ELSE upgrade_price(u)

can_afford(u, gs) ==
  IF is_heavenly(u) THEN gs.heavenly_chips >= upgrade_price(u)
  ELSE gs.cookies >= upgrade_price(u)

\* Upgrade.buy: <<success, game state, catalog flags>>
Upgrade_buy(u, gs, ups) ==
  IF ~ups[u].unlocked \/ ups[u].bought THEN <<FALSE, gs, ups>>
  ELSE IF ~can_afford(u, gs) THEN <<FALSE, gs, ups>>
  ELSE <<TRUE,
         add_upgrade(IF is_heavenly(u)
                     THEN [gs EXCEPT
                             !.heavenly_chips = @ - upgrade_price(u),
                             !.heavenly_chips_spent = @ + upgrade_price(u)]
                     ELSE spend_cookies(gs, upgrade_price(u))[2], u),
         [ups EXCEPT ![u].bought = TRUE]>>

\* UpgradeManager.buy_upgrade
Manager_buy_upgrade(u, gs, ups) ==
  IF u \notin UpgradeNames THEN <<FALSE, gs, ups>>
  ELSE Upgrade_buy(u, gs, ups)

NewlyUnlocked(gs, ups) ==
  {u \in UpgradeNames : ~ups[u].unlocked /\ ~ups[u].bought
                        /\ check_unlock_condition(u, gs)}

\* UpgradeManager.update_unlocks: <<game state, catalog flags>>
update_unlocks(gs, ups) ==
  <<[gs EXCEPT !.upgrades_unlocked = @ \cup NewlyUnlocked(gs, ups)],
    [u \in UpgradeNames |->
       IF u \in NewlyUnlocked(gs, ups)
       THEN [ups[u] EXCEPT !.unlocked = TRUE] ELSE ups[u]]>>

get_available_upgrades(ups) ==
  SelectSeq(UpgradeOrder, LAMBDA u : ups[u].unlocked /\ ~ups[u].bought)

get_affordable_upgrades(gs, ups) ==
  SelectSeq(UpgradeOrder,
            LAMBDA u : ups[u].unlocked /\ ~ups[u].bought /\ can_afford(u, gs))

\* BuildingManager.buy_building: <<success, game state>>
Manager_buy_building(b, amount, gs) ==
  IF b \notin BuildingNames THEN <<FALSE, gs>>
  ELSE LET paid == spend_cookies(gs,
                     get_bulk_price(b, get_building_count(gs, b), amount))
       IN IF paid[1] THEN <<TRUE, add_building(paid[2], b, amount)>>
          ELSE <<FALSE, gs>>

\* ---------------------------------------------------- PurchaseOptimizer
\* an efficiency is the quotient num / den of two fixed-point numbers,
\* den > 0, compared exactly
RECURSIVE FracLess(_, _)
FracLess(x, y) ==
  LET qx == x.num \div x.den
      qy == y.num \div y.den
      rx == x.num % x.den
      ry == y.num % y.den
  IN IF qx # qy THEN qx < qy
     ELSE IF ry = 0 THEN FALSE
     ELSE IF rx = 0 THEN TRUE
     ELSE FracLess([num |-> y.den, den |-> ry], [num |-> x.den, den |-> rx])

Ratio(cps_increase, price) ==
  IF price > 0 THEN [num |-> cps_increase, den |-> price]
  ELSE [num |-> 0, den |-> 1]

calculate_building_efficiency(b, current_amount, gs) ==
  Ratio(get_cps_contribution(b, current_amount + 1, gs)
          - get_cps_contribution(b, current_amount, gs),
        get_price(b, current_amount))

BuildingOption(b, gs) ==
  [type |-> "building", name |-> b,
   price |-> get_price(b, get_building_count(gs, b)),
   efficiency |-> calculate_building_efficiency(
                    b, get_building_count(gs, b), gs),
   cps_increase |->
     get_cps_contribution(b, get_building_count(gs, b) + 1, gs)
       - get_cps_contribution(b, get_building_count(gs, b), gs)]

RECURSIVE MapBuildingOptions(_, _)
MapBuildingOptions(names, gs) ==
  IF names = <<>> THEN <<>>
  ELSE <<BuildingOption(Head(names), gs)>>
         \o MapBuildingOptions(Tail(names), gs)

get_building_options_unfiltered(gs, budget) ==
  MapBuildingOptions(BuildingOrder, gs)

get_building_options(gs, budget) ==
  MapBuildingOptions(
    SelectSeq(BuildingOrder,
              LAMBDA b : get_price(b, get_building_count(gs, b)) <= budget),
    gs)

\* _calculate_upgrade_efficiency: <<efficiency, calculator>>; the rate
\* before is read through the optimizer's calculator, the rate after is
\* computed on a copy that owns the upgrade, after an invalidation
calculate_upgrade_efficiency(calc, u, gs) ==
  LET temp_state == add_upgrade(gs, u)
  IN <<Ratio(fresh_total_cps(temp_state) - calculate_total_cps(calc, gs),
             price_number(u)),
       calculator_after(invalidate_cache(calc), temp_state)>>

\* <<options, calculator>> for the upgrades of the sequence names
RECURSIVE MapUpgradeOptions(_, _, _)
MapUpgradeOptions(names, calc, gs) ==
  IF names = <<>> THEN <<(<<>>), calc>>
  ELSE LET e == calculate_upgrade_efficiency(calc, Head(names), gs)
           rest == MapUpgradeOptions(Tail(names), e[2], gs)
       IN <<(<<[type |-> "upgrade", name |-> Head(names),
                price |-> price_number(Head(names)),
                efficiency |-> e[1], cps_increase |-> 0]>>) \o rest[1],
            rest[2]>>

get_upgrade_options(calc, gs, ups, budget) ==
  MapUpgradeOptions(
    SelectSeq(get_affordable_upgrades(gs, ups),
              LAMBDA u : price_number(u) <= budget),
    calc, gs)

\* <<options, calculator>>
get_all_purchase_options(calc, gs, ups, budget) ==
  LET up == get_upgrade_options(calc, gs, ups, budget)
  IN <<get_building_options(gs, budget) \o up[1], up[2]>>

None == [type |-> "none"]

\* options.sort(key=efficiency, reverse=True)[0]: the sort is stable, so
\* the first option of the list among those of greatest efficiency
SortedFirst(options) ==
  options[CHOOSE i \in 1..Len(options) :
            /\ \A j \in 1..Len(options) :
                 ~FracLess(options[i].efficiency, options[j].efficiency)
            /\ \A j \in 1..(i - 1) :
                 FracLess(options[j].efficiency, options[i].efficiency)]

\* <<option or None, calculator>>
get_best_purchase(calc, gs, ups, budget) ==
  LET all == get_all_purchase_options(calc, gs, ups, budget)
  IN <<IF all[1] = <<>> THEN None ELSE SortedFirst(all[1]), all[2]>>

\* payback_time > time_horizon, payback_time = price / cps_increase or inf
PaybackExceeds(option, time_horizon) ==
  IF option.cps_increase > 0
  THEN option.price > time_horizon * option.cps_increase
  ELSE TRUE

\* get_optimal_strategy on a copy of gs: <<strategy, calculator, flags>>;
\* rounds counts the passes left of "for _ in range(100)"
RECURSIVE optimal_strategy_loop(_, _, _, _, _, _)
optimal_strategy_bought(b, calc, name, time_horizon, strategy, rounds) ==
  optimal_strategy_loop(
    [b[2] EXCEPT !.cookies_per_second = calculate_total_cps(calc, b[2])],
    calculator_after(calc, b[2]), b[3], time_horizon,
    IF b[1] THEN Append(strategy, name) ELSE strategy,
    rounds - 1)

optimal_strategy_buy(temp_state, best, ups, time_horizon, strategy, rounds) ==
  IF best[1].type = "none" \/ PaybackExceeds(best[1], time_horizon)
  THEN <<strategy, best[2], ups>>
  ELSE optimal_strategy_bought(
         IF best[1].type = "building"
         THEN Manager_buy_building(best[1].name, 1, temp_state) \o <<ups>>
         ELSE Manager_buy_upgrade(best[1].name, temp_state, ups),
         best[2], best[1].name, time_horizon, strategy, rounds)

optimal_strategy_loop(temp_state, calc, ups, time_horizon, strategy, rounds) ==
  IF rounds = 0 THEN <<strategy, calc, ups>>
  ELSE optimal_strategy_buy(
         temp_state,
         get_best_purchase(calc, temp_state, ups, temp_state.cookies),
         ups, time_horizon, strategy, rounds)

get_optimal_strategy(calc, gs, ups, time_horizon) ==
  optimal_strategy_loop(gs, calc, ups, time_horizon, <<>>, 100)

\* find_optimal_building_ratio on a copy: <<bought, calculator>>
RECURSIVE building_ratio_loop(_, _, _, _)
building_ratio_bought(b, calc, ups, name, bought) ==
  IF b[1] THEN building_ratio_loop(b[2], calc, ups, Append(bought, name))
  ELSE <<bought, calc>>

building_ratio_buy(temp_state, best, ups, bought) ==
  IF best[1].type # "building" THEN <<bought, best[2]>>
  ELSE building_ratio_bought(
         Manager_buy_building(best[1].name, 1, temp_state), best[2], ups,
         best[1].name, bought)

building_ratio_loop(temp_state, calc, ups, bought) ==
  IF temp_state.cookies <= 0 THEN <<bought, calc>>
  ELSE building_ratio_buy(
         temp_state,
         get_best_purchase(calc, temp_state, ups, temp_state.cookies),
         ups, bought)

find_optimal_building_ratio(calc, gs, ups, total_budget) ==
  building_ratio_loop([gs EXCEPT !.cookies = total_budget], calc, ups, <<>>)

\* get_purchase_priority_list: the calculator after the efficiencies of
\* all available upgrades were computed (the building part reads nothing
\* through the calculator)
priority_list_options(calc, gs, ups) ==
  LET up == MapUpgradeOptions(get_available_upgrades(ups), calc, gs)
  IN <<MapBuildingOptions(BuildingOrder, gs) \o up[1], up[2]>>

\* simulate_purchase_sequence on a copy: <<purchases_made, calculator,
\* flags>>.  A wait is cut when the copy earns nothing or the time limit
\* would be passed; after a wait the copy holds exactly the price.
RECURSIVE purchase_sequence_loop(_, _, _, _, _, _, _)
purchase_sequence_loop(temp_state, calc, ups, purchase_list, time_limit, time_taken, made) ==
  IF purchase_list = <<>> THEN <<made, calc, ups>>
  ELSE
    LET item == Head(purchase_list)
        price == IF item \in BuildingNames
                 THEN get_price(item, get_building_count(temp_state, item))
                 ELSE price_number(item)
        needed == price - temp_state.cookies
        rate == temp_state.cookies_per_second
    IN IF item \notin BuildingNames \cup UpgradeNames
       THEN purchase_sequence_loop(temp_state, calc, ups, Tail(purchase_list),
                                   time_limit, time_taken, made)
       ELSE IF needed > 0 /\ (rate <= 0
                              \/ needed > (time_limit - time_taken) * rate)
       THEN <<made, calc, ups>>
       ELSE
         LET wait_time == IF needed > 0 THEN (needed + rate - 1) \div rate
                          ELSE 0
             waited == IF needed > 0
                       THEN [temp_state EXCEPT !.cookies = price]
                       ELSE temp_state
             b == IF item \in BuildingNames
                  THEN Manager_buy_building(item, 1, waited) \o <<ups>>
                  ELSE Manager_buy_upgrade(item, waited, ups)
         IN purchase_sequence_loop(
              [b[2] EXCEPT !.cookies_per_second =
                             calculate_total_cps(calc, b[2])],
              calculator_after(calc, b[2]), b[3], Tail(purchase_list),
              time_limit, time_taken + wait_time,
              IF b[1] THEN Append(made, item) ELSE made)

simulate_purchase_sequence(calc, gs, ups, purchase_list, time_limit) ==
  purchase_sequence_loop(gs, calculator_after(calc, gs), ups, purchase_list,
                         time_limit, 0, <<>>)

\* -------------------------------------------------------- GameSimulator
VARIABLES game_state, UPGRADES, cps_calculator, optimizer_calculator,
          simulation_stats, settings, event_callbacks, fired, calls, ret

vars == <<game_state, UPGRADES, cps_calculator, optimizer_calculator,
          simulation_stats, settings, event_callbacks, fired, calls, ret>>

NewStats == [total_steps |-> 0, buildings_bought |-> 0,
             upgrades_bought |-> 0, ascensions |-> 0]

\* everything one GameSimulator call works on
Ctx(gs, ups, calc, opt, stats, cbs) ==
  [gs |-> gs, ups |-> ups, calc |-> calc, opt |-> opt, stats |-> stats,
   cbs |-> cbs, fired |-> <<>>, calls |-> <<>>]

Here == Ctx(game_state, UPGRADES, cps_calculator, optimizer_calculator,
            simulation_stats, event_callbacks)

\* the observers a caller may register: one returns, one raises an
\* Exception
Observers == {"logger", "faulty"}
Raises(observer) == observer = "faulty"

\* self.event_callbacks = {}
NoCallbacks == [e \in {} |-> <<>>]

\* set_event_callback: the registry after the registration
set_event_callback(cbs, event_name, callback) ==
  [e \in (DOMAIN cbs) \cup {event_name} |->
     IF e = event_name
     THEN Append(IF e \in DOMAIN cbs THEN cbs[e] ELSE <<>>, callback)
     ELSE cbs[e]]

\* a loop that lets the first Exception of an observer end it
RECURSIVE invoke_callbacks_unguarded(_, _, _, _)
invoke_callbacks_unguarded(callbacks, event_name, data, seen) ==
  IF callbacks = <<>> THEN <<>>
  ELSE <<[observer |-> Head(callbacks), event |-> event_name, data |-> data,
          seen |-> seen]>>
       \o (IF Raises(Head(callbacks)) THEN <<>>
           ELSE invoke_callbacks_unguarded(Tail(callbacks), event_name, data,
                                           seen))

\* for callback in self.event_callbacks[event_name]: try: callback(
\* self.game_state, data) except Exception: print(...).  The result is the
\* list of the calls made, each with the state the observer was handed.
RECURSIVE invoke_callbacks(_, _, _, _)
invoke_callbacks(callbacks, event_name, data, seen) ==
  IF callbacks = <<>> THEN <<>>
  ELSE <<[observer |-> Head(callbacks), event |-> event_name, data |-> data,
          seen |-> seen]>>
       \o invoke_callbacks(Tail(callbacks), event_name, data, seen)

\* _trigger_event
trigger_event(c, event_name, data) ==
  [c EXCEPT !.fired = Append(@, <<event_name, data>>),
            !.calls = IF event_name \in DOMAIN c.cbs
                      THEN @ \o invoke_callbacks(c.cbs[event_name],
                                                 event_name, data,
                                                 <<c.gs, c.stats>>)
                      ELSE @]

\* _auto_purchase, with purchases_made purchases already made;
\* auto_purchase_buy is the body of its loop once the best option is known
RECURSIVE auto_purchase(_, _)
auto_purchase_bought(c, b, name, purchases_made) ==
  IF b[1]
  THEN auto_purchase(
         trigger_event(
           [c EXCEPT !.gs = b[2], !.ups = b[3],
                     !.stats.buildings_bought =
                       IF name \in BuildingNames THEN @ + 1 ELSE @,
                     !.stats.upgrades_bought =
                       IF name \in BuildingNames THEN @ ELSE @ + 1,
                     !.calc = invalidate_cache(@)],
           "purchase", name),
         purchases_made + 1)
  ELSE c

auto_purchase_buy(c, best, purchases_made) ==
  IF best.type = "none" THEN c
  ELSE auto_purchase_bought(
         c,
         IF best.type = "building"
         THEN Manager_buy_building(best.name, 1, c.gs) \o <<c.ups>>
         ELSE Manager_buy_upgrade(best.name, c.gs, c.ups),
         best.name, purchases_made)

auto_purchase_found(c, found, purchases_made) ==
  auto_purchase_buy([c EXCEPT !.opt = found[2]], found[1], purchases_made)

\* a loop that buys for as long as a purchase succeeds
auto_purchase_unbounded(c, purchases_made) ==
  auto_purchase_found(
    c, get_best_purchase(c.opt, c.gs, c.ups, c.gs.cookies), purchases_made)

auto_purchase(c, purchases_made) ==
  IF purchases_made >= max_purchases_per_step THEN c
  ELSE auto_purchase_found(
         c, get_best_purchase(c.opt, c.gs, c.ups, c.gs.cookies),
         purchases_made)

auto_click(c, dt) ==
  LET cookies_from_clicks == calculate_click_power(c.gs) * clicks_per_second
                               * dt
  IN [c EXCEPT !.gs = [earn_cookies(c.gs, cookies_from_clicks)
                         EXCEPT !.cookie_clicks = @ + clicks_per_second * dt]]

\* an ascend that credits the whole new level, not its increase
ascend_credits_level(c) ==
  LET new_prestige == IntPrestige(BigSum(c.gs.cookies_reset,
                                         c.gs.cookies_earned))
      prestige_gain == new_prestige - c.gs.prestige
      credited == IF prestige_gain > 0
                  THEN [c.gs EXCEPT !.heavenly_chips = @ + new_prestige,
                                    !.prestige = new_prestige]
                  ELSE c.gs
  IN trigger_event(
       [c EXCEPT !.gs = reset_for_ascension(credited),
                 !.calc = invalidate_cache(@),
                 !.stats.ascensions = @ + 1],
       "ascension", prestige_gain)

\* GameSimulator.ascend
ascend(c) ==
  LET new_prestige == IntPrestige(BigSum(c.gs.cookies_reset,
                                         c.gs.cookies_earned))
      prestige_gain == new_prestige - c.gs.prestige
      credited == IF prestige_gain > 0
                  THEN [c.gs EXCEPT !.heavenly_chips = @ + prestige_gain,
                                    !.prestige = new_prestige]
                  ELSE c.gs
  IN trigger_event(
       [c EXCEPT !.gs = reset_for_ascension(credited),
                 !.calc = invalidate_cache(@),
                 !.stats.ascensions = @ + 1],
       "ascension", prestige_gain)

auto_ascend(c) ==
  IF IntPrestige(BigSum(c.gs.cookies_reset, c.gs.cookies_earned))
       - c.gs.prestige >= 10
  THEN ascend(c) ELSE c

\* GameSimulator.simulate_step, phase by phase
step_produce(c, cps, dt) ==
  [c EXCEPT !.calc = calculator_after(c.calc, c.gs),
            !.gs = update_buffs(
                     earn_cookies([c.gs EXCEPT !.cookies_per_second = cps],
                                  cps * dt), dt)]

step_unlock(c, un) == [c EXCEPT !.gs = un[1], !.ups = un[2]]

step_auto(c, dt) ==
  IF settings.auto_click_enabled THEN auto_click(c, dt) ELSE c

step_buy(c) ==
  IF settings.auto_buy_enabled THEN auto_purchase(c, 0) ELSE c

step_ascend(c) ==
  IF settings.auto_ascend_enabled THEN auto_ascend(c) ELSE c

\* a step that ends without advancing the clock
step_finish_untimed(c, dt) ==
  trigger_event([c EXCEPT !.stats.total_steps = @ + 1], "step", dt)

step_finish(c, dt) ==
  trigger_event(
    [c EXCEPT !.gs.game_time = @ + dt, !.stats.total_steps = @ + 1],
    "step", dt)

step_after_produce(c, dt) ==
  step_finish(
    step_ascend(
      step_buy(step_auto(step_unlock(c, update_unlocks(c.gs, c.ups)), dt))),
    dt)

simulate_step(c, dt) ==
  step_after_produce(
    step_produce(c, calculate_total_cps(c.calc, c.gs), dt), dt)

\* save_state: game state, statistics and settings
save_state(gs, stats, flags) ==
  [game_state |-> to_dict(gs), simulation_stats |-> stats,
   settings |-> flags]

\* load_state into the simulator c: the game state is read from the save,
\* the statistics are overwritten, the cache is dropped and the rate is
\* computed anew
load_state(c, state_data) ==
  LET loaded == from_dict(c.gs, state_data.game_state)
  IN [c EXCEPT
        !.gs = [loaded EXCEPT !.cookies_per_second = fresh_total_cps(loaded)],
        !.stats = state_data.simulation_stats,
        !.calc = calculator_after(NewCalculator, loaded)]

Commit(c, r) ==
  /\ game_state' = c.gs
  /\ UPGRADES' = c.ups
  /\ cps_calculator' = c.calc
  /\ optimizer_calculator' = c.opt
  /\ simulation_stats' = c.stats
  /\ event_callbacks' = c.cbs
  /\ fired' = c.fired
  /\ calls' = c.calls
  /\ ret' = r
  /\ UNCHANGED settings

\* ------------------------------------------------------------- inputs
\* a fresh state and the state of a veteran: one ascension behind (one
\* prestige level, one heavenly chip), one cookie short of the second
\* prestige level; EndowedStates is a fresh state with an endowment of
\* cookies
InitialStates ==
  {NewGameState,
   [NewGameState EXCEPT !.cookies = 120 * Scale,
                        !.cookies_earned = Big(7, -Scale),
                        !.cookies_reset = Big(1, 0),
                        !.prestige = 1, !.heavenly_chips = 1]}
EndowedStates == {[NewGameState EXCEPT !.cookies = 1300 * Scale]}
DtValues == {0, 10}
ClickTimes == {15}
BuildingIds == BuildingNames \cup {"Unknown building"}
UpgradeIds == UpgradeNames \cup {"Unknown upgrade"}
BoostInputs == {<<"boost", 10, CpsMult(200)>>, <<"boost", 10, CpsMult(300)>>}
BuffInputs == {<<"frenzy", 10, NoEffect>>} \cup BoostInputs
\* add_buff takes any effect: a cps_mult below zero
CurseInputs == {<<"curse", 10, CpsMult(-100)>>}

InitFrom(states, auto_buy, clicking) ==
  /\ game_state \in states
  /\ UPGRADES = NewUpgrades
  /\ cps_calculator = NewCalculator
  /\ optimizer_calculator = NewCalculator
  /\ simulation_stats = NewStats
  /\ settings \in [auto_buy_enabled : auto_buy, auto_click_enabled : clicking,
                   auto_ascend_enabled : {FALSE}]
  /\ event_callbacks = NoCallbacks
  /\ fired = <<>>
  /\ calls = <<>>
  /\ ret = [op |-> "init"]

\* the simulator as constructed buys automatically
Init == InitFrom(InitialStates, {TRUE}, {FALSE})

SimulateStep(max_steps) ==
  \E dt \in DtValues :
    /\ simulation_stats.total_steps < max_steps
    /\ Commit(simulate_step(Here, dt), [op |-> "simulate_step", dt |-> dt])

ClickCookie(clicks, limit) ==
  \E times \in clicks :
    /\ game_state.cookie_clicks + times <= limit
    /\ Commit(trigger_event(
                [Here EXCEPT !.gs =
                   [earn_cookies(game_state,
                                 calculate_click_power(game_state) * times)
                      EXCEPT !.cookie_clicks = @ + times]],
                "click", times),
              [op |-> "click_cookie", times |-> times])

BuyBuilding(ids, amounts) ==
  \E b \in ids, amount \in amounts :
    /\ get_building_count(game_state, b) + amount <= MaxOwned
    /\ get_building_count(game_state, b) + amount >= -MaxOwned
    /\ LET r == Manager_buy_building(b, amount, game_state)
       IN Commit(IF r[1]
                 THEN trigger_event(
                        [Here EXCEPT !.gs = r[2],
                                     !.calc = invalidate_cache(@),
                                     !.stats.buildings_bought = @ + amount],
                        "building_purchase", b)
                 ELSE Here,
                 [op |-> "buy_building", name |-> b, amount |-> amount,
                  success |-> r[1]])

BuyUpgrade(ids) ==
  \E u \in ids :
    LET r == Manager_buy_upgrade(u, game_state, UPGRADES)
    IN Commit(IF r[1]
              THEN trigger_event(
                     [Here EXCEPT !.gs = r[2], !.ups = r[3],
                                  !.calc = invalidate_cache(@),
                                  !.stats.upgrades_bought = @ + 1],
                     "upgrade_purchase", u)
              ELSE Here,
              [op |-> "buy_upgrade", name |-> u, success |-> r[1]])

AddBuff(inputs) ==
  \E i \in inputs :
    Commit(trigger_event(
             [Here EXCEPT !.gs = GameState_add_buff(game_state, i[1], i[2],
                                                    i[3]),
                          !.calc = invalidate_cache(@)],
             "buff_added", i[1]),
           [op |-> "add_buff", name |-> i[1]])

\* ascend has no return statement: its caller gets None, written << >>
Ascend ==
  /\ simulation_stats.ascensions < MaxAscensions
  /\ Commit(ascend(Here),
            [op |-> "ascend", result |-> <<>>,
             prestige_before |-> game_state.prestige,
             chips_before |-> game_state.heavenly_chips,
             owned_before |-> game_state.upgrades_owned,
             buffs_before |-> DOMAIN game_state.buffs])

\* set_event_callback, for the events of a step and of an ascend
ObservedEvents == {"step", "purchase", "ascension"}

\* number of callbacks registered in all
RECURSIVE Registrations(_, _)
Registrations(cbs, events) ==
  IF events = {} THEN 0
  ELSE LET e == CHOOSE x \in events : TRUE
       IN Len(cbs[e]) + Registrations(cbs, events \ {e})

SetEventCallback ==
  \E event_name \in ObservedEvents, callback \in Observers :
    /\ Registrations(event_callbacks, DOMAIN event_callbacks) < MaxObservers
    /\ Commit([Here EXCEPT !.cbs = set_event_callback(@, event_name,
                                                      callback)],
              [op |-> "set_event_callback"])

\* a save of this simulator is loaded into a freshly constructed one,
\* which takes its place
LoadState ==
  Commit(load_state(Ctx(NewGameState, UPGRADES, NewCalculator, NewCalculator,
                        NewStats, NoCallbacks),
                    save_state(game_state, simulation_stats, settings)),
         [op |-> "load_state"])

\* a save written by an earlier process: that game bought a Grandma, took a
\* step and bought 'Forwards from grandma' out of 2300 cookies
SavedGames ==
  {save_state([NewGameState EXCEPT
                 !.cookies = 1200 * Scale,
                 !.buildings["Grandma"] = 1,
                 !.upgrades_owned = {"Forwards from grandma"}],
              [NewStats EXCEPT !.total_steps = 1, !.buildings_bought = 1,
                               !.upgrades_bought = 1],
              settings)}

\* load_state of such a save into this simulator
LoadSaved ==
  \E state_data \in SavedGames :
    Commit(load_state(Here, state_data), [op |-> "load_state"])

\* ------------------------------------- what-if queries of the optimizer
Budgets == {14 * Scale, 120 * Scale}
PurchaseLists == {<<"Reinforced index finger">>,
                  <<"Grandma", "Heavenly chip secret">>}
default_time_horizon == 3600

WhatIf(opt, ups, r) ==
  /\ optimizer_calculator' = opt
  /\ UPGRADES' = ups
  /\ ret' = r
  /\ fired' = <<>>
  /\ calls' = <<>>
  /\ UNCHANGED <<game_state, cps_calculator, simulation_stats, settings,
                 event_callbacks>>

GetBestPurchase ==
  \E budget \in Budgets \cup {game_state.cookies} :
    LET best == get_best_purchase(optimizer_calculator, game_state, UPGRADES,
                                  budget)
    IN WhatIf(best[2], UPGRADES,
              [op |-> "get_best_purchase", budget |-> budget,
               option |-> best[1]])

GetPurchasePriorityList ==
  LET all == priority_list_options(optimizer_calculator, game_state, UPGRADES)
  IN WhatIf(all[2], UPGRADES, [op |-> "get_purchase_priority_list"])

GetOptimalStrategy ==
  LET r == get_optimal_strategy(optimizer_calculator, game_state, UPGRADES,
                                default_time_horizon)
  IN WhatIf(r[2], r[3], [op |-> "get_optimal_strategy", made |-> r[1]])

FindOptimalBuildingRatio ==
  \E total_budget \in Budgets :
    LET r == find_optimal_building_ratio(optimizer_calculator, game_state,
                                         UPGRADES, total_budget)
    IN WhatIf(r[2], UPGRADES,
              [op |-> "find_optimal_building_ratio", made |-> r[1]])

SimulatePurchaseSequence ==
  \E purchase_list \in PurchaseLists :
    LET r == simulate_purchase_sequence(optimizer_calculator, game_state,
                                        UPGRADES, purchase_list,
                                        default_time_horizon)
    IN WhatIf(r[2], r[3],
              [op |-> "simulate_purchase_sequence", made |-> r[1]])

\* GameSimulator.reset(): a fresh GameState, the catalog objects stay
Reset ==
  /\ game_state' = NewGameState
  /\ cps_calculator' = invalidate_cache(cps_calculator)
  /\ simulation_stats' = NewStats
  /\ fired' = <<>>
  /\ calls' = <<>>
  /\ ret' = [op |-> "reset"]
  /\ UNCHANGED <<UPGRADES, optimizer_calculator, settings, event_callbacks>>

Next ==
  \/ SimulateStep(MaxSteps)
  \/ ClickCookie(ClickTimes, MaxClicks)
  \/ BuyBuilding(BuildingNames, 1..MaxBuy)
  \/ BuyUpgrade(UpgradeNames)
  \/ Ascend

Spec == Init /\ [][Next]_vars

\* a second run: the endowed player clicks a thousand times at once, and
\* may ascend between runs
RunClicks == {1000}

InitNextRun == InitFrom(EndowedStates, {FALSE}, {FALSE})

NextNextRun ==
  \/ SimulateStep(MaxSteps)
  \/ ClickCookie(RunClicks, 1000)
  \/ BuyBuilding(BuildingIds, 1..MaxBuy)
  \/ BuyUpgrade(UpgradeIds)
  \/ Ascend

SpecNextRun == InitNextRun /\ [][NextNextRun]_vars

\* the veteran's game with timed buffs: some added, some replaced under
\* the same name, some running out in a step or dropped by an ascend
InitVeteran ==
  InitFrom({s \in InitialStates : s.prestige > 0}, {FALSE}, {FALSE})

NextAscend ==
  \/ SimulateStep(MaxSteps)
  \/ ClickCookie(ClickTimes, MaxClicks)
  \/ BuyUpgrade(UpgradeIds)
  \/ AddBuff(BuffInputs)
  \/ Ascend

SpecAscend == InitVeteran /\ [][NextAscend]_vars

\* the same game with the optimizer asked for its best purchase in between
NextBuffs ==
  \/ SimulateStep(MaxSteps)
  \/ BuyBuilding(BuildingIds, 1..1)
  \/ BuyUpgrade(UpgradeIds)
  \/ AddBuff(BoostInputs)
  \/ GetBestPurchase

SpecBuffs == InitVeteran /\ [][NextBuffs]_vars

\* the what-if queries of the optimizer, between the operations of the
\* veteran's game
NextWhatIf ==
  \/ SimulateStep(MaxSteps)
  \/ ClickCookie(ClickTimes, MaxClicks)
  \/ BuyUpgrade(UpgradeIds)
  \/ GetBestPurchase
  \/ GetPurchasePriorityList
  \/ GetOptimalStrategy
  \/ FindOptimalBuildingRatio
  \/ SimulatePurchaseSequence

SpecWhatIf == InitVeteran /\ [][NextWhatIf]_vars

\* the veteran's game with buy_building called with amounts that are not
\* positive (Spec has the positive ones)
NextAnyCount ==
  \/ SimulateStep(MaxSteps)
  \/ BuyBuilding(BuildingIds, (-MaxBuy)..0)
  \/ BuyUpgrade(UpgradeIds)
  \/ Ascend

SpecAnyCount == InitVeteran /\ [][NextAnyCount]_vars

\* the simulator left to click by itself: steps, upgrade purchases and
\* ascends only
InitAutoClick == InitFrom(InitialStates, {FALSE}, {TRUE})

NextAutoClick ==
  \/ SimulateStep(MaxAutoSteps)
  \/ BuyUpgrade(UpgradeNames)
  \/ Ascend

SpecAutoClick == InitAutoClick /\ [][NextAutoClick]_vars

\* play with saves: the game is saved and loaded back between operations
InitSaveLoad == InitFrom(InitialStates, BOOLEAN, {FALSE})

NextSaveLoad ==
  \/ SimulateStep(MaxSteps)
  \/ BuyBuilding(BuildingNames, 1..1)
  \/ BuyUpgrade(UpgradeNames)
  \/ AddBuff(BoostInputs)
  \/ LoadState

SpecSaveLoad == InitSaveLoad /\ [][NextSaveLoad]_vars

\* the game watched by observers, some of which raise
NextObserved ==
  \/ SetEventCallback
  \/ SimulateStep(MaxSteps)
  \/ Ascend

SpecObserved == Init /\ [][NextObserved]_vars

\* simulate_until_condition, one action per pass of its while loop. The call
\* in progress is the record ret: its position pc, its arguments and its
\* local elapsed_time. A condition is a predicate of the game state.
Conditions == {"never", "has_cursor", "hundred_cookies"}

condition(name, gs) ==
  CASE name = "never" -> FALSE
    [] name = "has_cursor" -> gs.buildings["Cursor"] >= 1
    [] name = "hundred_cookies" -> gs.cookies >= 100 * Scale

MaxTimes == {0, 20}
TimeSteps == {0, 10, 15}

UntilRunning == ret.op = "simulate_until_condition" /\ ret.pc = "while"
UntilReturned == ret.op = "simulate_until_condition" /\ ret.pc = "return"

\* elapsed_time = 0.0, before the first test of the loop
SimulateUntilCondition ==
  \E name \in Conditions, max_time \in MaxTimes, time_step \in TimeSteps :
    /\ ret.op # "simulate_until_condition"
    /\ ret' = [op |-> "simulate_until_condition", pc |-> "while",
               condition |-> name, max_time |-> max_time,
               time_step |-> time_step, elapsed_time |-> 0,
               result |-> <<>>]
    /\ UNCHANGED <<game_state, UPGRADES, cps_calculator,
                   optimizer_calculator, simulation_stats, settings,
                   event_callbacks, fired, calls>>

\* one pass: simulate_step(time_step); elapsed_time += time_step;
\* if condition(self.game_state): return True.
\* MaxUntilSteps passes are more than a call with a positive time_step
\* makes (max_time / time_step <= 2): a call that has made them with its
\* loop test still true is one the code keeps running, pass after pass
UntilPassEnabled ==
  /\ UntilRunning
  /\ ret.elapsed_time < ret.max_time
  /\ simulation_stats.total_steps < MaxUntilSteps

UntilPass ==
  /\ UntilPassEnabled
  /\ LET c == simulate_step(Here, ret.time_step)
         held == condition(ret.condition, c.gs)
     IN Commit(c, [ret EXCEPT !.elapsed_time = @ + ret.time_step,
                              !.pc = IF held THEN "return" ELSE @,
                              !.result = IF held THEN <<TRUE>> ELSE @])

\* the loop test fails: return False
UntilExhausted ==
  /\ UntilRunning
  /\ ret.elapsed_time >= ret.max_time
  /\ ret' = [ret EXCEPT !.pc = "return", !.result = <<FALSE>>]
  /\ UNCHANGED <<game_state, UPGRADES, cps_calculator,
                 optimizer_calculator, simulation_stats, settings,
                 event_callbacks, fired, calls>>

\* a step of UntilPass, told by the step counter that only it advances
\* while the call runs
UntilPassTaken ==
  /\ UntilPassEnabled
  /\ simulation_stats'.total_steps = simulation_stats.total_steps + 1

\* purchases by hand, then one call of simulate_until_condition. The loop is
\* sequential code and keeps running: weak fairness of UntilExhausted and of
\* UntilPass, the latter WF_vars(UntilPass) written out with its enabling
\* condition
NextUntil ==
  \/ ret.op # "simulate_until_condition" /\ BuyBuilding(BuildingNames, 1..1)
  \/ SimulateUntilCondition
  \/ UntilPass
  \/ UntilExhausted

SpecUntil ==
  /\ InitFrom(InitialStates, BOOLEAN, {FALSE})
  /\ [][NextUntil]_vars
  /\ WF_vars(UntilExhausted)
  /\ ([]<>(~UntilPassEnabled) \/ []<><<UntilPassTaken>>_vars)

\* a game with buffs of either sign added
NextCurse ==
  \/ SimulateStep(MaxSteps)
  \/ BuyBuilding(BuildingNames, 1..1)
  \/ AddBuff(BoostInputs \cup CurseInputs)

SpecCurse == InitFrom(InitialStates, {FALSE}, {FALSE}) /\ [][NextCurse]_vars

\* first games that have earned exactly the cookies of a prestige level
LevelStates ==
  {[NewGameState EXCEPT !.cookies_earned = calculate_cookies_for_prestige(L)]
     : L \in 0..MaxLevel}

NextLevels ==
  \/ SimulateStep(MaxSteps)
  \/ ClickCookie(ClickTimes, MaxClicks)
  \/ AddBuff(BuffInputs)
  \/ Ascend

SpecLevels == InitFrom(LevelStates, {FALSE}, {FALSE}) /\ [][NextLevels]_vars

\* games under every setting of auto_buy_enabled and auto_click_enabled
NextSettings ==
  \/ SimulateStep(MaxSteps)
  \/ BuyBuilding(BuildingNames, 1..1)
  \/ Ascend

SpecSettings == InitFrom(InitialStates, BOOLEAN, BOOLEAN) /\ [][NextSettings]_vars

\* an endowed game played by hand: buildings, steps that unlock upgrades,
\* upgrade purchases
NextShop ==
  \/ SimulateStep(MaxSteps)
  \/ BuyBuilding(BuildingNames, 1..1)
  \/ BuyUpgrade(UpgradeNames)

SpecShop == InitFrom(EndowedStates, {FALSE}, {FALSE}) /\ [][NextShop]_vars

\* short ticks: simulate_step with a dt below the duration of a buff
TickValues == {1}

Tick(max_steps) ==
  \E dt \in TickValues :
    /\ simulation_stats.total_steps < max_steps
    /\ Commit(simulate_step(Here, dt), [op |-> "simulate_step", dt |-> dt])

\* an endowed game in short ticks: buildings bought by hand before the
\* first tick, a frenzy of 10 seconds added while none is running
NextTicks ==
  \/ Tick(MaxTicks)
  \/ simulation_stats.total_steps = 0 /\ BuyBuilding(BuildingNames, 1..1)
  \/ "frenzy" \notin DOMAIN game_state.buffs
       /\ AddBuff({<<"frenzy", 10, NoEffect>>})

SpecTicks == InitFrom(EndowedStates, {FALSE}, {FALSE}) /\ [][NextTicks]_vars

\* an endowed game that buys by itself, with purchases by hand in between
NextAutoBuy ==
  \/ SimulateStep(MaxAutoSteps)
  \/ BuyBuilding(BuildingNames, 1..1)
  \/ BuyUpgrade(UpgradeNames)

SpecAutoBuy == InitFrom(EndowedStates, {TRUE}, {FALSE}) /\ [][NextAutoBuy]_vars

\* a new process that loads a save of an earlier one and plays on by hand
NextRestore ==
  \/ LoadSaved
  \/ SimulateStep(MaxAutoSteps)
  \/ BuyBuilding(BuildingNames, 1..1)
  \/ BuyUpgrade(UpgradeNames)

SpecRestore == InitFrom({NewGameState}, {FALSE}, {FALSE}) /\ [][NextRestore]_vars

\* games played by hand in one process, with reset() between them
NextReset ==
  \/ SimulateStep(MaxSteps)
  \/ ClickCookie(ClickTimes, MaxClicks)
  \/ BuyBuilding(BuildingNames, 1..1)
  \/ BuyUpgrade(UpgradeNames)
  \/ Reset

SpecReset == InitFrom(InitialStates, {FALSE}, {FALSE}) /\ [][NextReset]_vars

\* buildings bought by hand, none, one or several at a time
NextBulk ==
  \/ SimulateStep(MaxSteps)
  \/ BuyBuilding(BuildingNames, 0..MaxBuy)

SpecBulk ==
  InitFrom(InitialStates \cup EndowedStates, {FALSE}, {FALSE})
    /\ [][NextBulk]_vars

\* ================================================================ claims

\* C1: cookies is never negative, and in every reachable state a building
\* or cookie-priced upgrade purchase whose price exceeds the cookies at
\* hand is refused and leaves the state as it was (no clamping)
C1_CookiesNeverNegative ==
  /\ game_state.cookies >= 0
  /\ \A b \in BuildingNames, amount \in 1..MaxBuy :
       get_bulk_price(b, get_building_count(game_state, b), amount)
         > game_state.cookies
       => Manager_buy_building(b, amount, game_state) = <<FALSE, game_state>>
  /\ \A u \in UpgradeNames :
       (~is_heavenly(u) /\ upgrade_price(u) > game_state.cookies)
       => Manager_buy_upgrade(u, game_state, UPGRADES)
            = <<FALSE, game_state, UPGRADES>>

\* a purchase of an unlocked upgrade was refused for lack of cookies after
\* cookies had been earned and spent
C1_Witness ==
  /\ ret.op = "buy_upgrade" /\ ~ret.success
  /\ ret.name \in UpgradeNames /\ ~is_heavenly(ret.name)
  /\ UPGRADES[ret.name].unlocked /\ ~UPGRADES[ret.name].bought
  /\ upgrade_price(ret.name) > game_state.cookies
  /\ game_state.cookies > 0
  /\ simulation_stats.buildings_bought > 0

\* C2: a buy_building or buy_upgrade call with an unknown id, with a price
\* above the funds at hand or (upgrade) with an upgrade that is not in the
\* unlocked set of the current run answers False and changes neither the
\* game state, nor the catalog flags, nor the purchase counters, and fires
\* no event
C2_InvalidPurchaseRefused ==
  [][LET invalid ==
           \/ /\ ret'.op = "buy_building"
              /\ \/ ret'.name \notin BuildingNames
                 \/ get_bulk_price(ret'.name,
                                   get_building_count(game_state, ret'.name),
                                   ret'.amount) > game_state.cookies
           \/ /\ ret'.op = "buy_upgrade"
              /\ \/ ret'.name \notin UpgradeNames
                 \/ ret'.name \notin game_state.upgrades_unlocked
                 \/ ~can_afford(ret'.name, game_state)
     IN invalid => /\ ~ret'.success
                   /\ game_state' = game_state
                   /\ UPGRADES' = UPGRADES
                   /\ simulation_stats' = simulation_stats
                   /\ fired' = <<>>]_vars

\* C3: every ascend, with or without a prestige gain, leaves every building
\* count at 0, cookies and cookies_earned at 0, and neither prestige nor
\* heavenly_chips below their value before the call
C3_AscendResets ==
  [][ret'.op = "ascend" =>
       /\ \A b \in BuildingNames : game_state'.buildings[b] = 0
       /\ game_state'.cookies = 0
       /\ game_state'.cookies_earned = Big(0, 0)
       /\ game_state'.prestige >= game_state.prestige
       /\ game_state'.heavenly_chips >= game_state.heavenly_chips]_vars

\* an ascend without prestige gain, of a player who had bought buildings
C3_Witness ==
  /\ ret.op = "ascend"
  /\ game_state.prestige = ret.prestige_before
  /\ game_state.heavenly_chips = ret.chips_before
  /\ simulation_stats.buildings_bought > 0
  /\ game_state.cookies_reset # Big(0, 0)
  /\ \A b \in BuildingNames : game_state.buildings[b] = 0

\* C4: ascend keeps of the owned upgrades exactly the heavenly ones,
\* empties the unlocked set and the buffs, leaves heavenly_chips_spent as it
\* was and adds to heavenly_chips nothing but the prestige gained
C4_AscendKeepsPremium ==
  [][ret'.op = "ascend" =>
       /\ game_state'.upgrades_owned
            = {u \in game_state.upgrades_owned : is_heavenly(u)}
       /\ game_state'.upgrades_unlocked = {}
       /\ DOMAIN game_state'.buffs = {}
       /\ game_state'.heavenly_chips_spent = game_state.heavenly_chips_spent
       /\ game_state'.heavenly_chips >= game_state.heavenly_chips
       /\ game_state'.heavenly_chips - game_state.heavenly_chips
            = game_state'.prestige - game_state.prestige]_vars

\* an ascend of a player who owned a heavenly and a plain upgrade, had
\* spent a chip and had a buff running
C4_Witness ==
  /\ ret.op = "ascend"
  /\ ret.owned_before = {"Reinforced index finger", "Heavenly chip secret"}
  /\ ret.buffs_before # {}
  /\ game_state.upgrades_owned = {"Heavenly chip secret"}
  /\ game_state.heavenly_chips_spent > 0
  /\ game_state.heavenly_chips > ret.chips_before

\* C6: on each of the two calculators a second calculate_total_cps gives
\* what the first gave, and the next calculate_total_cps gives what a
\* calculator with an empty cache gives for the state as it is now
C6_CacheMatchesFresh ==
  \A calc \in {cps_calculator, optimizer_calculator} :
    /\ calculate_total_cps(calculator_after(calc, game_state), game_state)
         = calculate_total_cps(calc, game_state)
    /\ calculate_total_cps(calc, game_state)
         = calculate_total_cps(NewCalculator, game_state)

\* C5: a what-if query leaves every field of the original game state as it
\* was, and every purchase attempt on the original has after the query the
\* outcome it would have had before it
C5_WhatIfLeavesOriginal ==
  [][ret'.op \in {"get_best_purchase", "get_purchase_priority_list",
                  "get_optimal_strategy", "find_optimal_building_ratio",
                  "simulate_purchase_sequence"} =>
       /\ game_state' = game_state
       /\ \A u \in UpgradeIds :
            Manager_buy_upgrade(u, game_state', UPGRADES')[1]
              = Manager_buy_upgrade(u, game_state, UPGRADES)[1]
       /\ \A b \in BuildingIds, amount \in 1..MaxBuy :
            Manager_buy_building(b, amount, game_state')[1]
              = Manager_buy_building(b, amount, game_state)[1]]_vars

\* C7: the efficiency of every option get_best_purchase ranks is the gain
\* in total production rate the purchase brings, divided by its price, and
\* no option within the budget has a greater efficiency than the one
\* returned
C7_BestIsMostEfficient ==
  LET found == get_best_purchase(optimizer_calculator, game_state, UPGRADES,
                                 game_state.cookies)
      options == get_all_purchase_options(optimizer_calculator, game_state,
                                          UPGRADES, game_state.cookies)[1]
      bought(o) == IF o.type = "building"
                   THEN add_building(game_state, o.name, 1)
                   ELSE add_upgrade(game_state, o.name)
      gain(o) == calculate_total_cps(NewCalculator, bought(o))
                   - calculate_total_cps(NewCalculator, game_state)
  IN found[1] # None =>
       \A i \in 1..Len(options) :
         /\ options[i].efficiency = Ratio(gain(options[i]), options[i].price)
         /\ ~FracLess(found[1].efficiency, options[i].efficiency)

\* C8: of two options within the budget that have the same efficiency and
\* different prices, get_best_purchase does not return the dearer one
C8_TieGoesToCheaper ==
  \A budget \in Budgets \cup {game_state.cookies} :
    LET found == get_best_purchase(optimizer_calculator, game_state, UPGRADES,
                                   budget)
        options == get_all_purchase_options(optimizer_calculator, game_state,
                                            UPGRADES, budget)[1]
    IN \A i, j \in 1..Len(options) :
         (/\ ~FracLess(options[i].efficiency, options[j].efficiency)
          /\ ~FracLess(options[j].efficiency, options[i].efficiency)
          /\ options[i].price < options[j].price)
         => found[1] # options[j]

\* C9: get_best_purchase returns no option dearer than the budget, returns
\* None when no building and no available upgrade can be paid, and with the
\* default budget (the cookies at hand) the option it returns is bought
\* successfully, as the auto-purchase loop does
C9_BestIsAffordable ==
  \A budget \in Budgets \cup {game_state.cookies} :
    LET best == get_best_purchase(optimizer_calculator, game_state, UPGRADES,
                                  budget)[1]
    IN /\ best # None => best.price <= budget
       /\ (/\ \A b \in BuildingNames :
                get_price(b, get_building_count(game_state, b)) > budget
           /\ get_affordable_upgrades(game_state, UPGRADES) = <<>>)
          => best = None
       /\ (best # None /\ budget = game_state.cookies) =>
            IF best.type = "building"
            THEN Manager_buy_building(best.name, 1, game_state)[1]
            ELSE Manager_buy_upgrade(best.name, game_state, UPGRADES)[1]

\* a step whose auto-purchase bought until nothing more could be paid
C9_Witness ==
  /\ ret.op = "simulate_step"
  /\ settings.auto_buy_enabled
  /\ \E i \in 1..Len(fired) : fired[i][1] = "purchase"
  /\ simulation_stats.buildings_bought > 0
  /\ get_best_purchase(optimizer_calculator, game_state, UPGRADES,
                       game_state.cookies)[1] = None

\* C10: no building count is ever negative
C10_CountsNeverNegative ==
  \A b \in BuildingNames : game_state.buildings[b] >= 0

\* C11: every owned upgrade that is not a heavenly one is in the unlocked
\* set of the same game state
C11_OwnedIsUnlocked ==
  \A u \in game_state.upgrades_owned :
    ~is_heavenly(u) => u \in game_state.upgrades_unlocked

\* C12: a save loaded into a fresh simulator gives the cookies, the
\* building counts and the cookies_per_second of the saved simulator
C12_LoadRestores ==
  [][ret'.op = "load_state" =>
       /\ game_state'.cookies = game_state.cookies
       /\ game_state'.buildings = game_state.buildings
       /\ game_state'.cookies_per_second
            = game_state.cookies_per_second]_vars

\* C13: for every event an operation fires, each observer registered for
\* it is called exactly once, in registration order, whether or not an
\* earlier observer raised; a purchase observer is handed a state that
\* holds the purchase, an observer of a step or of an ascend is handed the
\* state the operation ends in, and that state is the one the operation
\* ends in without observers
C13_ObserversAllRun ==
  [][LET registered(e) == IF e \in DOMAIN event_callbacks
                          THEN event_callbacks[e] ELSE <<>>
         RECURSIVE expected(_)
         expected(events) ==
           IF events = <<>> THEN <<>>
           ELSE [i \in 1..Len(registered(Head(events)[1])) |->
                   <<registered(Head(events)[1])[i], Head(events)[1],
                     Head(events)[2]>>]
                \o expected(Tail(events))
         quiet == [Here EXCEPT !.cbs = NoCallbacks]
     IN ret'.op \in {"simulate_step", "ascend"} =>
          /\ [i \in 1..Len(calls') |->
                <<calls'[i].observer, calls'[i].event, calls'[i].data>>]
               = expected(fired')
          /\ \A i \in 1..Len(calls') :
               calls'[i].event = "purchase" =>
                 IF calls'[i].data \in BuildingNames
                 THEN calls'[i].seen[1].buildings[calls'[i].data]
                        > game_state.buildings[calls'[i].data]
                 ELSE calls'[i].data \in calls'[i].seen[1].upgrades_owned
          /\ \A i \in 1..Len(calls') :
               calls'[i].event \in {"step", "ascension"} =>
                 calls'[i].seen = <<game_state', simulation_stats'>>
          /\ ret'.op = "simulate_step" =>
               /\ game_state' = simulate_step(quiet, ret'.dt).gs
               /\ simulation_stats' = simulate_step(quiet, ret'.dt).stats
          /\ ret'.op = "ascend" =>
               /\ game_state' = ascend(quiet).gs
               /\ simulation_stats' = ascend(quiet).stats]_vars

\* a step with a purchase whose first observer raised and whose second
\* observer was called all the same, before the observers of the step
C13_Witness ==
  /\ ret.op = "simulate_step"
  /\ Len(calls) >= 3
  /\ calls[1].event = "purchase" /\ calls[1].observer = "faulty"
  /\ calls[2].event = "purchase" /\ calls[2].observer = "logger"
  /\ calls[Len(calls)].event = "step"
  /\ calls[Len(calls)].seen = <<game_state, simulation_stats>>

\* C14: with the three automatisms off, one step of a + b seconds ends
\* with the cookies, the cookies_earned, the game_time and the active buffs
\* of a step of a seconds followed by a step of b seconds
C14_StepsAddUp ==
  (/\ ~settings.auto_buy_enabled
   /\ ~settings.auto_click_enabled
   /\ ~settings.auto_ascend_enabled) =>
    \A split \in {<<5, 5>>, <<10, 10>>} :
      LET once == simulate_step(Here, split[1] + split[2]).gs
          twice == simulate_step(simulate_step(Here, split[1]), split[2]).gs
      IN /\ once.cookies = twice.cookies
         /\ once.cookies_earned = twice.cookies_earned
         /\ once.game_time = twice.game_time
         /\ DOMAIN once.buffs = DOMAIN twice.buffs

\* C15: for each building and each k from 0 to MaxBuy + 1, the bulk price
\* of k units at the owned count is the sum of the k single prices from that
\* count on, and k purchases of one unit that all succeed leave the state
\* that one purchase of k units leaves, each succeeding when the other does
C15_BulkIsSum ==
  \A b \in BuildingNames, k \in 0..(MaxBuy + 1) :
    LET n == get_building_count(game_state, b)
        RECURSIVE SumFrom(_)
        SumFrom(i) == IF i >= k THEN 0
                      ELSE get_price(b, n + i) + SumFrom(i + 1)
        RECURSIVE OneByOne(_, _)
        OneByOne(gs, left) ==
          IF left = 0 THEN <<TRUE, gs>>
          ELSE IF Manager_buy_building(b, 1, gs)[1]
               THEN OneByOne(Manager_buy_building(b, 1, gs)[2], left - 1)
               ELSE <<FALSE, gs>>
        bulk == Manager_buy_building(b, k, game_state)
        single == OneByOne(game_state, k)
    IN /\ get_bulk_price(b, n, k) = SumFrom(0)
       /\ bulk[1] = single[1]
       /\ bulk[1] => bulk[2] = single[2]

\* a purchase of two units at once, at two different prices
C15_Witness ==
  /\ ret.op = "buy_building" /\ ret.success /\ ret.amount = 2
  /\ game_state.buildings[ret.name] = 2
  /\ get_price(ret.name, 0) # get_price(ret.name, 1)

\* C16: an ascend returns to its caller the prestige gained, the level
\* after the call minus the level before it, which is also the value its
\* ascension event carries
C16_AscendReturnsGain ==
  [][ret'.op = "ascend" =>
       LET gain == game_state'.prestige - game_state.prestige
       IN /\ fired' = <<(<<"ascension", gain>>)>>
          /\ ret'.result = <<gain>>]_vars

C18_RateNeverNegative ==
  calculate_total_cps(cps_calculator, game_state) >= 0

\* C19: in every state the stored prestige level is the integer level
\* computed from cookies_reset + cookies_earned
C19_PrestigeIsComputed ==
  game_state.prestige
    = IntPrestige(BigSum(game_state.cookies_reset, game_state.cookies_earned))

\* C20: for every level L from 0 to MaxLevel, the integer prestige level
\* derived from calculate_cookies_for_prestige(L) lifetime cookies is L: an
\* ascend of a first game with exactly that lifetime total stores level L
C20_LevelRoundTrip ==
  [][ret'.op = "ascend" /\ game_state.prestige = 0 =>
       \A L \in 0..MaxLevel :
         BigSum(game_state.cookies_reset, game_state.cookies_earned)
             = calculate_cookies_for_prestige(L)
           => /\ IntPrestige(calculate_cookies_for_prestige(L)) = L
              /\ game_state'.prestige = L]_vars

\* a state with no buildings, no upgrades, rate 0 and nothing affordable
IdleState ==
  /\ \A b \in BuildingNames : game_state.buildings[b] = 0
  /\ game_state.upgrades_owned = {}
  /\ calculate_total_cps(cps_calculator, game_state) = 0
  /\ \A b \in BuildingNames : get_price(b, 0) > game_state.cookies
  /\ \A u \in UpgradeNames : ~can_afford(u, game_state)

IdleStepKeepsCookies ==
  /\ game_state'.cookies = game_state.cookies
  /\ game_state'.cookies_earned = game_state.cookies_earned
  /\ game_state'.game_time = game_state.game_time + ret'.dt

\* C21 as stated: a simulate_step(dt) on a state with no buildings, no
\* upgrades, rate 0 and nothing affordable leaves cookies and cookies_earned
\* unchanged and adds dt to game_time
C21_IdleStep ==
  [][ret'.op = "simulate_step" /\ IdleState => IdleStepKeepsCookies]_vars

\* C21 amended: the same, for a simulator whose auto_click_enabled and
\* auto_ascend_enabled are off, as the constructor sets them
C21_IdleStepNoAutoClick ==
  [][/\ ret'.op = "simulate_step"
     /\ IdleState
     /\ ~settings.auto_click_enabled
     /\ ~settings.auto_ascend_enabled
     => IdleStepKeepsCookies]_vars

\* an idle step of 10 seconds, taken without auto-click
C21_Witness ==
  /\ ret.op = "simulate_step" /\ ret.dt = 10
  /\ ~settings.auto_click_enabled
  /\ game_state.game_time = 10
  /\ game_state.cookies = 0 /\ game_state.cookies_earned = Big(0, 0)
  /\ \A b \in BuildingNames : game_state.buildings[b] = 0
  /\ game_state.upgrades_owned = {}

\* x and y differ by at most 1% of y: equal to the rounding of the amounts
WithinRounding(x, y) == 100 * x <= 101 * y /\ 101 * x >= 100 * y

\* C22: the global multipliers scale the total rate once: in every state, a
\* prestige level that doubles the prestige multiplier (100 + 2 * prestige,
\* for the multiplier 1 + prestige / 100) doubles the total rate
C22_MultiplierOnce ==
  LET doubled == [game_state EXCEPT !.prestige = 100 + 2 * @]
  IN /\ get_prestige_multiplier(doubled)
          = 2 * get_prestige_multiplier(game_state)
     /\ WithinRounding(fresh_total_cps(doubled),
                       2 * fresh_total_cps(game_state))

\* contribution of the buildings of b owned in gs
Contribution(b, gs) == get_cps_contribution(b, get_building_count(gs, b), gs)

\* C23: a purchase of 'Forwards from grandma' doubles the contribution of
\* Grandma and leaves the contribution of every other building unchanged
C23_UpgradeHitsTarget ==
  [][ret'.op = "buy_upgrade" /\ ret'.name = "Forwards from grandma"
       /\ ret'.success =>
       /\ Contribution("Grandma", game_state')
            = 2 * Contribution("Grandma", game_state)
       /\ \A b \in BuildingNames \ {"Grandma"} :
            Contribution(b, game_state') = Contribution(b, game_state)]_vars

\* C24: a simulate_step leaves in upgrades_unlocked what was there, and
\* every upgrade whose unlock predicate holds on the state after production
C24_StepUnlocks ==
  [][ret'.op = "simulate_step" =>
       LET produced == step_produce(
                         Here, calculate_total_cps(cps_calculator, game_state),
                         ret'.dt).gs
       IN game_state'.upgrades_unlocked
            = game_state.upgrades_unlocked
                \cup {u \in UpgradeNames : check_unlock_condition(u, produced)}
     ]_vars

\* C25: a simulate_step(dt) produces at the rate of the buffs active when it
\* starts, takes dt off the duration of every buff and removes, in the
\* same step, the buffs whose duration is then 0 or less
C25_BuffsExpire ==
  [][ret'.op = "simulate_step" =>
       /\ game_state'.cookies_earned
            = BigAdd(game_state.cookies_earned,
                     fresh_total_cps(game_state) * ret'.dt)
       /\ DOMAIN game_state'.buffs
            = {n \in DOMAIN game_state.buffs :
                 game_state.buffs[n].duration - ret'.dt > 0}
       /\ \A n \in DOMAIN game_state'.buffs :
            game_state'.buffs[n].duration
              = game_state.buffs[n].duration - ret'.dt]_vars

\* one Cursor (0.1 per second), a frenzy of 10 seconds and 15 ticks of one
\* second: 10 ticks at seven times the rate, 5 at the plain rate, no buff
C25_Witness ==
  /\ ret.op = "simulate_step" /\ ret.dt = 1
  /\ simulation_stats.total_steps = 15 /\ game_state.game_time = 15
  /\ game_state.buildings = [b \in BuildingNames |->
                               IF b = "Cursor" THEN 1 ELSE 0]
  /\ game_state.buffs = <<>>
  /\ game_state.cookies_earned
       = Big(0, 10 * 7 * base_cps("Cursor") + 5 * base_cps("Cursor"))

\* purchases counted by the statistics
Purchases(stats) == stats.buildings_bought + stats.upgrades_bought

\* C26: one simulate_step makes at most max_purchases_per_step purchases,
\* one purchase event each; when it makes fewer, its loop has stopped
\* because no option was returned or because the purchase of the option
\* returned fails
C26_PurchasesPerStep ==
  [][ret'.op = "simulate_step" /\ settings.auto_buy_enabled =>
       LET made == Purchases(simulation_stats') - Purchases(simulation_stats)
           best == get_best_purchase(optimizer_calculator', game_state',
                                     UPGRADES', game_state'.cookies)[1]
       IN /\ made <= max_purchases_per_step
          /\ Len(SelectSeq(fired', LAMBDA e : e[1] = "purchase")) = made
          /\ made < max_purchases_per_step =>
               \/ best.type = "none"
               \/ best.type = "building"
                    /\ ~Manager_buy_building(best.name, 1, game_state')[1]
               \/ best.type = "upgrade"
                    /\ ~Manager_buy_upgrade(best.name, game_state',
                                            UPGRADES')[1]]_vars

\* a step that stopped at the bound with a building still affordable
C26_Witness ==
  /\ ret.op = "simulate_step" /\ settings.auto_buy_enabled
  /\ Len(SelectSeq(fired, LAMBDA e : e[1] = "purchase"))
       = max_purchases_per_step
  /\ \E b \in BuildingNames :
       Manager_buy_building(b, 1, game_state)[1]

\* C27: in every state the heavenly chips held and the heavenly chips spent
\* add up to the prestige level, and the chips held are not negative
C27_ChipsAddUp ==
  /\ game_state.heavenly_chips + game_state.heavenly_chips_spent
       = game_state.prestige
  /\ game_state.heavenly_chips >= 0

\* a chip spent on a premium upgrade, then an ascend that gains a level
C27_Witness ==
  /\ ret.op = "ascend" /\ ret.prestige_before = 1
  /\ game_state.prestige = 2
  /\ game_state.heavenly_chips_spent = 1
  /\ game_state.heavenly_chips = 1
  /\ "Heavenly chip secret" \in game_state.upgrades_owned

\* C28: a buy_upgrade of an upgrade the state owns returns False and
\* charges nothing, neither cookies nor heavenly chips
C28_OwnedNotSoldAgain ==
  [][ret'.op = "buy_upgrade" /\ ret'.name \in game_state.upgrades_owned =>
       /\ ~ret'.success
       /\ game_state'.cookies = game_state.cookies
       /\ game_state'.heavenly_chips = game_state.heavenly_chips]_vars

\* the simulator of a fresh process on the present game state: catalog
\* flags and calculators as a new interpreter builds them
FreshProcess ==
  [Here EXCEPT !.ups = NewUpgrades, !.calc = NewCalculator,
               !.opt = NewCalculator]

\* C29: right after reset() the simulator behaves as the simulator of a
\* fresh process: a simulate_step gives the same game state, and each
\* buy_upgrade after it the same result and the same game state
C29_ResetIsolates ==
  ret.op = "reset" =>
    \A dt \in DtValues :
      LET mine == simulate_step(Here, dt)
          fresh == simulate_step(FreshProcess, dt)
      IN /\ mine.gs = fresh.gs
         /\ \A u \in UpgradeNames :
              LET a == Manager_buy_upgrade(u, mine.gs, mine.ups)
                  b == Manager_buy_upgrade(u, fresh.gs, fresh.ups)
              IN a[1] = b[1] /\ a[2] = b[2]

====
